---------------------------- MODULE Spec2Model ----------------------------
(***************************************************************************)
(* Enhancement simulator (src/src/App.jsx): the seeded generator, the two  *)
(* Monte Carlo simulators, the two worst-case calculators and the batch    *)
(* driver runSimulation.                                                   *)
(*                                                                         *)
(* Numbers.  A JavaScript number that holds an unsigned 32-bit value is    *)
(* kept as two 16-bit limbs [hi, lo] (its value is hi * 2^16 + lo), since  *)
(* the products of the generator exceed the range of TLC's integers.  A    *)
(* probability is a rational <<num, den>> with den > 0.  A result that can *)
(* be Infinity is a pair <<"fin", n>> or <<"inf", 0>>.  Arrays are         *)
(* functions on 0 .. length-1, indexed as in the source.                   *)
(***************************************************************************)
EXTENDS Integers, Sequences, FiniteSets, TLC

VARIABLES
    input,      \* the form fields read by runSimulation
    params,     \* const params of runSimulation / the argument of a call
    pc,         \* where the driver stands
    rng,        \* createLCG's closed-over state
    t,          \* runSimulation's trial index
    sim,        \* the locals of the running simulateStarsOnly / simulateFullRun
    s,          \* the last outcome returned by simulateStarsOnly
    f,          \* the last outcome returned by simulateFullRun
    results,    \* what runSimulation hands to setResults
    draws,      \* how many times rand() has been called on rng (history)
    prev,       \* what the previous batch of the same form left (history)
    stats       \* the arguments and results of direct calls of percentile,
                \* the sort and makeHistogram

vars == <<input, params, pc, rng, t, sim, s, f, results, draws, prev, stats>>

---------------------------------------------------------------------------
(* Bounds of the model *)

MaxStars == 2
MaxPity == 2
MaxTrials == 2
MaxAttempts == 8
MaxCallPity == 1
MaxCount == 2
MaxLen == 3

---------------------------------------------------------------------------
(* Unsigned 32-bit arithmetic on limbs *)

Word == 2 ^ 16

Multiplier == 1664525
Increment == 1013904223

\* n >>> 0 for an integer n
ToUint32(n) == [hi |-> (n \div Word) % Word, lo |-> n % Word]

\* the divisor 0xffffffff of rand()
Divisor == [hi |-> Word - 1, lo |-> Word - 1]

lcgNextNoCarry(state) ==
    [hi |-> ((Multiplier \div Word) * state.lo + (Multiplier % Word) * state.hi
              + (Increment \div Word)) % Word,
     lo |-> ((Multiplier % Word) * state.lo + (Increment % Word)) % Word]

\* state = (1664525 * state + 1013904223) >>> 0
lcgNext(state) ==
    LET p0  == (Multiplier % Word) * state.lo
        lo1 == (p0 % Word) + (Increment % Word)
    IN  [hi |-> ((Multiplier \div Word) * state.lo + (Multiplier % Word) * state.hi
                  + (p0 \div Word) + (Increment \div Word) + (lo1 \div Word)) % Word,
         lo |-> lo1 % Word]

createLCGShared(seed) ==
    IF draws > 0
    THEN rng
    ELSE LET u == ToUint32(seed)
         IN  IF u.hi = 0 /\ u.lo = 0 THEN ToUint32(1) ELSE u

\* let state = seed >>> 0 || 1
createLCG(seed) ==
    LET u == ToUint32(seed)
    IN  IF u.hi = 0 /\ u.lo = 0 THEN ToUint32(1) ELSE u

\* Number(seed) || 1, the argument runSimulation passes to createLCG
seedOrOne(seed) == IF seed = 0 THEN 1 ELSE seed

\* state / 0xffffffff < p, for the value rand() returns and a probability p:
\* state * den < num * (2^32 - 1), compared limb by limb
randLess(state, p) ==
    LET lhsLo == state.lo * p[2]
        lhsHi == state.hi * p[2] + (lhsLo \div Word)
        rhsLo == p[1] * Divisor.lo
        rhsHi == p[1] * Divisor.hi + (rhsLo \div Word)
    IN  \/ lhsHi < rhsHi
        \/ lhsHi = rhsHi /\ (lhsLo % Word) < (rhsLo % Word)

\* state / 0xffffffff < 1: the value returned lies in [0, 1)
belowOne(state) == randLess(state, <<1, 1>>)

---------------------------------------------------------------------------
(* Numbers that may be Infinity *)

Fin(n) == <<"fin", n>>
Infinity == <<"inf", 0>>
isFinite(x) == x[1] = "fin"

---------------------------------------------------------------------------
(* simulateStarsOnly and simulateFullRun *)

\* Array(numStars).fill(0)
zeros(numStars) == [k \in 0 .. numStars - 1 |-> 0]

handleFailResetNever(par, starPityFails) == starPityFails

handleFailResetAlways(par, starPityFails) == zeros(par.numStars)

handleFailResetFirstOnly(par, starPityFails) ==
    IF par.starPityResetsOnAnyFail /\ 0 \in DOMAIN starPityFails
    THEN [starPityFails EXCEPT ![0] = 0]
    ELSE starPityFails

\* handleFailReset, applied to the pity array
handleFailReset(par, starPityFails) ==
    IF par.starPityResetsOnAnyFail THEN zeros(par.numStars) ELSE starPityFails

\* the locals of simulateStarsOnly before its loop
starsOnlyBegin(par) ==
    [fn |-> "starsOnly", attempts |-> 0, gold |-> 0,
     starPityFails |-> zeros(par.numStars), finalPityFails |-> 0,
     starAttempts |-> zeros(par.numStars),
     currentStars |-> 0, i |-> 0,
     returned |-> ~(0 < par.numStars)]

\* the locals of simulateFullRun on entry to its first inner loop
fullRunBegin(par) ==
    [fn |-> "full", attempts |-> 0, gold |-> 0,
     starPityFails |-> zeros(par.numStars), finalPityFails |-> 0,
     starAttempts |-> zeros(par.numStars),
     currentStars |-> 0, i |-> 0,
     returned |-> FALSE]

starGuaranteedStrict(par, r, i) == r.starPityFails[i] > par.starPityThreshold

\* const guaranteed = starPityFails[i] >= starPityThreshold
starGuaranteed(par, r, i) == r.starPityFails[i] >= par.starPityThreshold

finalGuaranteedStrict(par, r) == r.finalPityFails > par.finalPityThreshold

\* const finalGuaranteed = finalPityFails >= finalPityThreshold
finalGuaranteed(par, r) == r.finalPityFails >= par.finalPityThreshold

\* rand() < starProbs[i] for the state the draw left; false for a missing entry
starLucky(par, i, state) ==
    IF i \in DOMAIN par.starProbs THEN randLess(state, par.starProbs[i]) ELSE FALSE

\* rand() < finalProb
finalLucky(par, state) == randLess(state, par.finalProb)

starsOnlyBodyFreePity(par, r, lucky) ==
    LET i == r.currentStars
        counted == [r EXCEPT !.attempts = @ + 1,
                             !.gold = @ + par.goldPerAttempt,
                             !.starAttempts[i] = @ + 1]
    IN  IF starGuaranteed(par, r, i)
        THEN [r EXCEPT !.currentStars = @ + 1,
                       !.starPityFails[i] = 0,
                       !.returned = ~(r.currentStars + 1 < par.numStars)]
        ELSE IF lucky
        THEN [counted EXCEPT !.currentStars = @ + 1,
                             !.starPityFails[i] = 0,
                             !.returned = ~(r.currentStars + 1 < par.numStars)]
        ELSE [counted EXCEPT !.starPityFails =
                                 handleFailReset(par, [@ EXCEPT ![i] = @ + 1]),
                             !.currentStars = 0]

starsOnlyBodyNoRestart(par, r, lucky) ==
    LET i == r.currentStars
        counted == [r EXCEPT !.attempts = @ + 1,
                             !.gold = @ + par.goldPerAttempt,
                             !.starAttempts[i] = @ + 1]
    IN  IF starGuaranteed(par, r, i) \/ lucky
        THEN [counted EXCEPT !.currentStars = @ + 1,
                             !.starPityFails[i] = 0,
                             !.returned = ~(r.currentStars + 1 < par.numStars)]
        ELSE [counted EXCEPT !.starPityFails =
                                 handleFailReset(par, [@ EXCEPT ![i] = @ + 1])]

\* one pass of the while loop of simulateStarsOnly; lucky is rand() < starProbs[i],
\* read only when the attempt is not guaranteed
starsOnlyBody(par, r, lucky) ==
    LET i == r.currentStars
        counted == [r EXCEPT !.attempts = @ + 1,
                             !.gold = @ + par.goldPerAttempt,
                             !.starAttempts[i] = @ + 1]
    IN  IF starGuaranteed(par, r, i) \/ lucky
        THEN [counted EXCEPT !.currentStars = @ + 1,
                             !.starPityFails[i] = 0,
                             !.returned = ~(r.currentStars + 1 < par.numStars)]
        ELSE [counted EXCEPT !.starPityFails =
                                 handleFailReset(par, [@ EXCEPT ![i] = @ + 1]),
                             !.currentStars = 0]

fullStarBodyWipesFinal(par, r, lucky) ==
    LET i == r.i
        counted == [r EXCEPT !.attempts = @ + 1,
                             !.gold = @ + par.goldPerAttempt,
                             !.starAttempts[i] = @ + 1]
    IN  IF starGuaranteed(par, r, i) \/ lucky
        THEN [counted EXCEPT !.currentStars = @ + 1,
                             !.starPityFails[i] = 0,
                             !.i = i + 1]
        ELSE [counted EXCEPT !.starPityFails =
                                 handleFailReset(par, [@ EXCEPT ![i] = @ + 1]),
                             !.finalPityFails = 0,
                             !.currentStars = 0,
                             !.i = -1 + 1]

fullStarBodyNoRestart(par, r, lucky) ==
    LET i == r.i
        counted == [r EXCEPT !.attempts = @ + 1,
                             !.gold = @ + par.goldPerAttempt,
                             !.starAttempts[i] = @ + 1]
    IN  IF starGuaranteed(par, r, i) \/ lucky
        THEN [counted EXCEPT !.currentStars = @ + 1,
                             !.starPityFails[i] = 0,
                             !.i = i + 1]
        ELSE [counted EXCEPT !.starPityFails =
                                 handleFailReset(par, [@ EXCEPT ![i] = @ + 1]),
                             !.currentStars = 0]

fullStarBodyKeepsPity(par, r, lucky) ==
    LET i == r.i
        counted == [r EXCEPT !.attempts = @ + 1,
                             !.gold = @ + par.goldPerAttempt,
                             !.starAttempts[i] = @ + 1]
    IN  IF starGuaranteed(par, r, i) \/ lucky
        THEN [counted EXCEPT !.currentStars = @ + 1,
                             !.i = i + 1]
        ELSE [counted EXCEPT !.starPityFails =
                                 handleFailReset(par, [@ EXCEPT ![i] = @ + 1]),
                             !.currentStars = 0,
                             !.i = -1 + 1]

\* one pass of the inner for loop of simulateFullRun, its i++ included
fullStarBody(par, r, lucky) ==
    LET i == r.i
        counted == [r EXCEPT !.attempts = @ + 1,
                             !.gold = @ + par.goldPerAttempt,
                             !.starAttempts[i] = @ + 1]
    IN  IF starGuaranteed(par, r, i) \/ lucky
        THEN [counted EXCEPT !.currentStars = @ + 1,
                             !.starPityFails[i] = 0,
                             !.i = i + 1]
        ELSE [counted EXCEPT !.starPityFails =
                                 handleFailReset(par, [@ EXCEPT ![i] = @ + 1]),
                             !.currentStars = 0,
                             !.i = -1 + 1]

fullFinalBodyNoGold(par, r, lucky) ==
    LET counted == [r EXCEPT !.attempts = @ + 1]
    IN  IF finalGuaranteed(par, r) \/ lucky
        THEN [counted EXCEPT !.returned = TRUE]
        ELSE [counted EXCEPT !.finalPityFails = @ + 1,
                             !.starPityFails = handleFailReset(par, @),
                             !.currentStars = 0,
                             !.i = 0]

fullFinalBodyNoPity(par, r, lucky) ==
    LET counted == [r EXCEPT !.attempts = @ + 1,
                             !.gold = @ + par.goldPerAttempt]
    IN  IF finalGuaranteed(par, r) \/ lucky
        THEN [counted EXCEPT !.returned = TRUE]
        ELSE [counted EXCEPT !.starPityFails = handleFailReset(par, @),
                             !.currentStars = 0,
                             !.i = 0]

fullFinalBodyRetry(par, r, lucky) ==
    LET counted == [r EXCEPT !.attempts = @ + 1,
                             !.gold = @ + par.goldPerAttempt]
    IN  IF finalGuaranteed(par, r) \/ lucky
        THEN [counted EXCEPT !.returned = TRUE]
        ELSE [counted EXCEPT !.finalPityFails = @ + 1,
                             !.starPityFails = handleFailReset(par, @)]

fullFinalBodyNoCount(par, r, lucky) ==
    IF finalGuaranteed(par, r) \/ lucky
    THEN [r EXCEPT !.attempts = @ + 1,
                   !.gold = @ + par.goldPerAttempt,
                   !.returned = TRUE]
    ELSE [r EXCEPT !.finalPityFails = @ + 1,
                   !.starPityFails = handleFailReset(par, @),
                   !.currentStars = 0,
                   !.i = 0]

\* the final upgrade attempt of simulateFullRun and, when it fails, the
\* re-entry of the outer loop (currentStars = 0, i = 0)
fullFinalBody(par, r, lucky) ==
    LET counted == [r EXCEPT !.attempts = @ + 1,
                             !.gold = @ + par.goldPerAttempt]
    IN  IF finalGuaranteed(par, r) \/ lucky
        THEN [counted EXCEPT !.returned = TRUE]
        ELSE [counted EXCEPT !.finalPityFails = @ + 1,
                             !.starPityFails = handleFailReset(par, @),
                             !.currentStars = 0,
                             !.i = 0]

\* return { attempts, gold, starAttempts }
outcome(r) == [attempts |-> r.attempts, gold |-> r.gold, starAttempts |-> r.starAttempts]

---------------------------------------------------------------------------
(* worstCaseStarsOnly and worstCaseFull *)

worstStarBodyKeepsPity(par, w) ==
    LET i == w.currentStars
    IN  IF w.starPityFails[i] >= par.starPityThreshold
        THEN [w EXCEPT !.attempts = @ + 1,
                       !.currentStars = @ + 1]
        ELSE [w EXCEPT !.attempts = @ + 1,
                       !.starPityFails[i] = @ + 1,
                       !.currentStars = 0]

worstStarBodyNoRestart(par, w) ==
    LET i == w.currentStars
    IN  IF w.starPityFails[i] >= par.starPityThreshold
        THEN [w EXCEPT !.attempts = @ + 1,
                       !.starPityFails[i] = 0,
                       !.currentStars = @ + 1]
        ELSE [w EXCEPT !.attempts = @ + 1,
                       !.starPityFails[i] = @ + 1]

\* one pass of the adversarial star loop (the same in both calculators)
worstStarBody(par, w) ==
    LET i == w.currentStars
    IN  IF w.starPityFails[i] >= par.starPityThreshold
        THEN [w EXCEPT !.attempts = @ + 1,
                       !.starPityFails[i] = 0,
                       !.currentStars = @ + 1]
        ELSE [w EXCEPT !.attempts = @ + 1,
                       !.starPityFails[i] = @ + 1,
                       !.currentStars = 0]

RECURSIVE worstStarLoop(_, _)
worstStarLoop(par, w) ==
    IF w.currentStars < par.numStars
    THEN worstStarLoop(par, worstStarBody(par, w))
    ELSE w

\* the locals of a worst-case calculator before its loop
worstBegin(par) ==
    [starPityFails |-> zeros(par.numStars), finalPityFails |-> 0,
     attempts |-> 0, currentStars |-> 0]

worstCaseStarsOnlyNoCheck(par) ==
    LET w == worstStarLoop(par, worstBegin(par))
    IN  [attempts |-> Fin(w.attempts), gold |-> Fin(w.attempts * par.goldPerAttempt)]

worstCaseStarsOnly(par) ==
    IF par.starPityResetsOnAnyFail
    THEN [attempts |-> Infinity, gold |-> Infinity]
    ELSE LET w == worstStarLoop(par, worstBegin(par))
         IN  [attempts |-> Fin(w.attempts),
              gold |-> Fin(w.attempts * par.goldPerAttempt)]

\* the outer for (;;) of worstCaseFull from the locals w, to its return
RECURSIVE worstFullLoop(_, _)
worstFullLoop(par, w) ==
    LET built == worstStarLoop(par, [w EXCEPT !.currentStars = 0])
        tried == [built EXCEPT !.attempts = @ + 1]
    IN  IF built.finalPityFails >= par.finalPityThreshold
        THEN tried
        ELSE worstFullLoop(par, [tried EXCEPT !.finalPityFails = @ + 1])

worstCaseFullOneRound(par) ==
    LET w == worstStarLoop(par, worstBegin(par))
    IN  [attempts |-> Fin(w.attempts + 1),
         gold |-> Fin((w.attempts + 1) * par.goldPerAttempt)]

worstCaseFull(par) ==
    IF par.starPityResetsOnAnyFail
    THEN [attempts |-> Infinity, gold |-> Infinity]
    ELSE LET w == worstFullLoop(par, worstBegin(par))
         IN  [attempts |-> Fin(w.attempts),
              gold |-> Fin(w.attempts * par.goldPerAttempt)]

---------------------------------------------------------------------------
(* percentile, the sorts, the means, makeHistogram and summarizePerStar.   *)
(* A number that need not be an integer (a percentile, a mean) is a        *)
(* fraction <<num, den>>; a mean of no values is 0 / 0 (NaN).              *)

length(arr) == Cardinality(DOMAIN arr)

\* a <= b for fractions with positive denominators
ratLeq(a, b) == a[1] * b[2] <= b[1] * a[2]

\* a = b for fractions with positive denominators
ratEq(a, b) == a[1] * b[2] = b[1] * a[2]

\* the percentiles runSimulation and summarizePerStar ask for: 0.5, 0.9, 0.99
P50 == <<50, 100>>
P90 == <<90, 100>>
P99 == <<99, 100>>

\* sorted with v put after the entries that are not larger
insertSorted(sorted, v) ==
    LET pos == Cardinality({k \in DOMAIN sorted : sorted[k] <= v})
    IN  [k \in 0 .. length(sorted) |->
            IF k < pos THEN sorted[k] ELSE IF k = pos THEN v ELSE sorted[k - 1]]

RECURSIVE sortFirst(_, _)
sortFirst(arr, n) ==
    IF n = 0 THEN <<>> ELSE insertSorted(sortFirst(arr, n - 1), arr[n - 1])

\* [...arr].sort((a, b) => a - b)
sortNum(arr) == sortFirst(arr, length(arr))

percentileNoGuard(sortedArr, p) ==
    IF length(sortedArr) = 0
    THEN <<0, 1>>
    ELSE LET pos == (length(sortedArr) - 1) * p[1]
             base == pos \div p[2]
             rest == pos % p[2]
         IN  IF base + 1 \in DOMAIN sortedArr
             THEN <<sortedArr[base] * p[2]
                      + rest * (sortedArr[base + 1] - sortedArr[base]), p[2]>>
             ELSE <<0, 0>>

percentileSwapped(sortedArr, p) ==
    IF length(sortedArr) = 0
    THEN <<0, 1>>
    ELSE LET pos == (length(sortedArr) - 1) * p[1]
             base == pos \div p[2]
             rest == pos % p[2]
         IN  IF base + 1 \in DOMAIN sortedArr
             THEN <<sortedArr[base + 1] * p[2]
                      - rest * (sortedArr[base + 1] - sortedArr[base]), p[2]>>
             ELSE <<sortedArr[base], 1>>

\* percentile(sortedArr, p) for p = p[1] / p[2]: pos = (length - 1) * p,
\* base = floor(pos), rest = pos - base
percentile(sortedArr, p) ==
    IF length(sortedArr) = 0
    THEN <<0, 1>>
    ELSE LET pos == (length(sortedArr) - 1) * p[1]
             base == pos \div p[2]
             rest == pos % p[2]
         IN  IF base + 1 \in DOMAIN sortedArr
             THEN <<sortedArr[base] * p[2]
                      + rest * (sortedArr[base + 1] - sortedArr[base]), p[2]>>
             ELSE <<sortedArr[base], 1>>

\* arr.reduce((a, b) => a + b, 0) over the first n entries
RECURSIVE sumFirst(_, _)
sumFirst(arr, n) == IF n = 0 THEN 0 ELSE sumFirst(arr, n - 1) + arr[n - 1]

\* arr.reduce((a, b) => a + b, 0) / arr.length
mean(arr) == <<sumFirst(arr, length(arr)), length(arr)>>

\* Math.round(x) for a fraction x with positive denominator
round(x) == (2 * x[1] + x[2]) \div (2 * x[2])

\* starsSummary / fullSummary
summary(attempts, golds) ==
    LET sA == sortNum(attempts)
        sG == sortNum(golds)
    IN  [meanAttempts |-> mean(attempts),
         medianAttempts |-> percentile(sA, P50),
         p90Attempts |-> percentile(sA, P90),
         p99Attempts |-> percentile(sA, P99),
         meanGold |-> mean(golds),
         medianGold |-> percentile(sG, P50),
         p90Gold |-> percentile(sG, P90),
         p99Gold |-> percentile(sG, P99)]

\* the Map of makeHistogram after the first n entries of arr
RECURSIVE histogramMap(_, _, _)
histogramMap(arr, binSize, n) ==
    IF n = 0
    THEN <<>>
    ELSE LET map == histogramMap(arr, binSize, n - 1)
             bin == (arr[n - 1] \div binSize) * binSize
         IN  [b \in DOMAIN map \cup {bin} |->
                 IF b = bin
                 THEN (IF bin \in DOMAIN map THEN map[bin] ELSE 0) + 1
                 ELSE map[b]]

makeHistogramUnsorted(arr, binSize) ==
    LET map == histogramMap(arr, binSize, length(arr))
    IN  [k \in 0 .. Cardinality(DOMAIN map) - 1 |->
            LET bin == CHOOSE b \in DOMAIN map :
                           Cardinality({c \in DOMAIN map : c > b}) = k
            IN  [attempts |-> bin, runs |-> map[bin]]]

\* makeHistogram(arr, binSize): the entries of the Map, sorted by bin
makeHistogram(arr, binSize) ==
    LET map == histogramMap(arr, binSize, length(arr))
    IN  [k \in 0 .. Cardinality(DOMAIN map) - 1 |->
            LET bin == CHOOSE b \in DOMAIN map :
                           Cardinality({c \in DOMAIN map : c < b}) = k
            IN  [attempts |-> bin, runs |-> map[bin]]]

\* summarizePerStar: one row per star, the numbers before formatNumber
summarizePerStar(perStarArrs) ==
    [i \in DOMAIN perStarArrs |->
        LET arr == perStarArrs[i]
            sorted == sortNum(arr)
        IN  [Mean |-> IF length(arr) > 0 THEN round(mean(arr)) ELSE 0,
             P50 |-> round(percentile(sorted, P50)),
             P90 |-> round(percentile(sorted, P90)),
             P99 |-> round(percentile(sorted, P99))]]

---------------------------------------------------------------------------
(* runSimulation *)

\* arr.slice(0, n)
slice(arr, n) ==
    LET len == Cardinality(DOMAIN arr)
        end == IF n < 0 THEN (IF len + n < 0 THEN 0 ELSE len + n)
                        ELSE (IF n < len THEN n ELSE len)
    IN  [k \in 0 .. end - 1 |-> arr[k]]

\* const params = { ... } built from the form fields
makeParams(in) ==
    [goldPerAttempt |-> in.goldPerAttempt,
     starProbs |-> slice(in.starProbs, in.starsRequired),
     finalProb |-> in.finalProb,
     starPityThreshold |-> in.starPityThreshold,
     finalPityThreshold |-> in.finalPityThreshold,
     starPityResetsOnAnyFail |-> in.starPityResetsOnAnyFail,
     numStars |-> in.starsRequired]

\* arr.push(v)
push(arr, v) == [k \in 0 .. Cardinality(DOMAIN arr) |-> IF k \in DOMAIN arr THEN arr[k] ELSE v]

\* the accumulators of runSimulation before its loop; set is true once
\* setResults has been called
noResults ==
    [set |-> FALSE,
     starsAttempts |-> <<>>, starsGolds |-> <<>>,
     fullAttempts |-> <<>>, fullGolds |-> <<>>,
     starsAttemptsPerStar |-> <<>>, fullAttemptsPerStar |-> <<>>,
     starsSummary |-> summary(<<>>, <<>>), fullSummary |-> summary(<<>>, <<>>),
     starsHistogram |-> <<>>, fullHistogram |-> <<>>,
     starsPerStarRows |-> <<>>, fullPerStarRows |-> <<>>,
     wcStars |-> [attempts |-> Fin(0), gold |-> Fin(0)],
     wcFull |-> [attempts |-> Fin(0), gold |-> Fin(0)]]

\* lines 359-369: the empty accumulators, one empty array per star
newResults(par) ==
    [noResults EXCEPT !.starsAttemptsPerStar = [k \in 0 .. par.numStars - 1 |-> <<>>],
                      !.fullAttemptsPerStar = [k \in 0 .. par.numStars - 1 |-> <<>>]]

\* outcome.starAttempts.forEach((val, idx) => perStar[idx].push(val))
pushEach(perStar, starAttempts) ==
    [k \in DOMAIN perStar |->
        IF k \in DOMAIN starAttempts THEN push(perStar[k], starAttempts[k]) ELSE perStar[k]]

noRun == starsOnlyBegin([numStars |-> 0])
noOutcome == outcome(noRun)

\* no direct call has been made
noStats == [arr |-> <<>>, sorted |-> FALSE, sortedArr |-> <<>>,
            pct |-> <<>>, binSize |-> 0, hist |-> <<>>]

\* no batch has finished yet
noPrev == [set |-> FALSE, results |-> noResults, rng |-> ToUint32(0), draws |-> 0]

\* The loops of a configuration that wipes star pity on every failure need not
\* end; the model stops such a run at MaxAttempts attempts.
mayStep(r) == params.starPityResetsOnAnyFail => r.attempts < MaxAttempts

---------------------------------------------------------------------------
(* The inputs *)

ProbSet == {<<0, 1>>, <<1, 2>>, <<1, 1>>}
GoldSet == {0, 100}
SeedSet == {0, 42, 653637408}

\* the pity thresholds tried: none, one failure, and the largest
PitySet == {0, 1, MaxPity}

\* every form tried; the cost 0 is tried with the seed 42 only
ValidInputs ==
    { in \in UNION {
        [starsRequired : {n},
         goldPerAttempt : GoldSet,
         starProbs : [0 .. n - 1 -> ProbSet],
         finalProb : ProbSet,
         starPityThreshold : PitySet,
         finalPityThreshold : PitySet,
         starPityResetsOnAnyFail : BOOLEAN,
         trials : {MaxTrials},
         seed : SeedSet] : n \in 1 .. MaxStars } :
      in.goldPerAttempt = 0 => in.seed = 42 }

\* a valid request, and requests that break one rule of the validation each
baseInput ==
    [starsRequired |-> 1, goldPerAttempt |-> 100,
     starProbs |-> [k \in 0 .. 0 |-> <<1, 2>>], finalProb |-> <<1, 2>>,
     starPityThreshold |-> 1, finalPityThreshold |-> 1,
     starPityResetsOnAnyFail |-> FALSE, trials |-> 1, seed |-> 42]

InvalidInputs ==
    { [baseInput EXCEPT !.starsRequired = 0],
      [baseInput EXCEPT !.starsRequired = -1],
      [baseInput EXCEPT !.starsRequired = 2],
      [baseInput EXCEPT !.starProbs = [k \in 0 .. 0 |-> <<3, 2>>]],
      [baseInput EXCEPT !.finalProb = <<-1, 2>>],
      [baseInput EXCEPT !.starPityThreshold = -1],
      [baseInput EXCEPT !.finalPityThreshold = -1],
      [baseInput EXCEPT !.goldPerAttempt = -100],
      [baseInput EXCEPT !.trials = 0] }

\* the validation the specification asks for (runSimulation has none)
validProb(p) == 0 <= p[1] /\ p[1] <= p[2]

validInput(in) ==
    /\ in.starsRequired >= 1
    /\ Cardinality(DOMAIN in.starProbs) = in.starsRequired
    /\ \A k \in DOMAIN in.starProbs : validProb(in.starProbs[k])
    /\ validProb(in.finalProb)
    /\ in.starPityThreshold >= 0
    /\ in.finalPityThreshold >= 0
    /\ in.goldPerAttempt >= 0
    /\ in.trials > 0

---------------------------------------------------------------------------
(* The batch: one click on Run Simulation *)

Init ==
    /\ input \in ValidInputs \cup InvalidInputs
    /\ params = makeParams(input)
    /\ pc = "idle"
    /\ rng = ToUint32(0)
    /\ t = 0
    /\ sim = noRun
    /\ s = noOutcome
    /\ f = noOutcome
    /\ results = noResults
    /\ draws = 0
    /\ prev = noPrev
    /\ stats = noStats

\* lines 346-369 when Array(numStars) throws a RangeError
runSimulationThrows ==
    /\ pc = "idle"
    /\ input.starsRequired < 0
    /\ rng' = createLCG(seedOrOne(input.seed))
    /\ pc' = "threw"
    /\ params' = makeParams(input)
    /\ UNCHANGED <<stats, prev, input, t, sim, s, f, results, draws>>

\* lines 346-369
runSimulationBegin ==
    /\ pc = "idle"
    /\ input.starsRequired >= 0
    /\ rng' = createLCG(seedOrOne(input.seed))
    /\ t' = 0
    /\ results' = newResults(makeParams(input))
    /\ pc' = "loop"
    /\ params' = makeParams(input)
    /\ UNCHANGED <<stats, prev, input, sim, s, f, draws>>

\* a second click on Run Simulation with the form untouched: lines 346-369
\* again, with a new generator and new locals; prev keeps what the first
\* batch handed to setResults and the state it left its generator in
runSimulationAgain ==
    /\ pc = "done"
    /\ ~prev.set
    /\ prev' = [set |-> TRUE, results |-> results, rng |-> rng, draws |-> draws]
    /\ rng' = createLCG(seedOrOne(input.seed))
    /\ draws' = 0
    /\ t' = 0
    /\ results' = newResults(makeParams(input))
    /\ sim' = noRun
    /\ s' = noOutcome
    /\ f' = noOutcome
    /\ pc' = "loop"
    /\ params' = makeParams(input)
    /\ UNCHANGED <<stats, input>>

trialBeginFullFirst ==
    /\ pc = "loop"
    /\ t < input.trials
    /\ sim' = fullRunBegin(params)
    /\ pc' = "full"
    /\ UNCHANGED <<stats, prev, input, params, rng, t, s, f, results, draws>>

\* line 371 with t < trials, and the call of line 372
trialBegin ==
    /\ pc = "loop"
    /\ t < input.trials
    /\ sim' = starsOnlyBegin(params)
    /\ pc' = "starsOnly"
    /\ UNCHANGED <<stats, prev, input, params, rng, t, s, f, results, draws>>

\* one pass of the loop of simulateStarsOnly, drawing from rng when not guaranteed
starsOnlyStep ==
    /\ pc = "starsOnly"
    /\ ~sim.returned
    /\ mayStep(sim)
    /\ LET drew == ~starGuaranteed(params, sim, sim.currentStars)
           state == lcgNext(rng)
       IN  /\ rng' = IF drew THEN state ELSE rng
           /\ draws' = IF drew THEN draws + 1 ELSE draws
           /\ sim' = starsOnlyBody(params, sim,
                                   drew /\ starLucky(params, sim.currentStars, state))
    /\ UNCHANGED <<stats, prev, input, params, pc, t, s, f, results>>

\* lines 372-377: s is returned and recorded, simulateFullRun is entered
starsOnlyReturn ==
    /\ pc = "starsOnly"
    /\ sim.returned
    /\ s' = outcome(sim)
    /\ results' = [results EXCEPT !.starsAttempts = push(@, sim.attempts),
                                  !.starsGolds = push(@, sim.gold),
                                  !.starsAttemptsPerStar = pushEach(@, sim.starAttempts)]
    /\ sim' = fullRunBegin(params)
    /\ pc' = "full"
    /\ UNCHANGED <<stats, prev, input, params, rng, t, f, draws>>

\* one pass of the inner loop of simulateFullRun
fullStarStep ==
    /\ pc = "full"
    /\ ~sim.returned
    /\ sim.i < params.numStars
    /\ mayStep(sim)
    /\ LET drew == ~starGuaranteed(params, sim, sim.i)
           state == lcgNext(rng)
       IN  /\ rng' = IF drew THEN state ELSE rng
           /\ draws' = IF drew THEN draws + 1 ELSE draws
           /\ sim' = fullStarBody(params, sim,
                                  drew /\ starLucky(params, sim.i, state))
    /\ UNCHANGED <<stats, prev, input, params, pc, t, s, f, results>>

fullFinalStepAlwaysDraws ==
    /\ pc = "full"
    /\ ~sim.returned
    /\ ~(sim.i < params.numStars)
    /\ mayStep(sim)
    /\ LET state == lcgNext(rng)
       IN  /\ rng' = state
           /\ draws' = draws + 1
           /\ sim' = fullFinalBody(params, sim, finalLucky(params, state))
    /\ UNCHANGED <<stats, prev, input, params, pc, t, s, f, results>>

\* the final attempt of simulateFullRun
fullFinalStep ==
    /\ pc = "full"
    /\ ~sim.returned
    /\ ~(sim.i < params.numStars)
    /\ mayStep(sim)
    /\ LET drew == ~finalGuaranteed(params, sim)
           state == lcgNext(rng)
       IN  /\ rng' = IF drew THEN state ELSE rng
           /\ draws' = IF drew THEN draws + 1 ELSE draws
           /\ sim' = fullFinalBody(params, sim, drew /\ finalLucky(params, state))
    /\ UNCHANGED <<stats, prev, input, params, pc, t, s, f, results>>

\* lines 377-381: f is returned and recorded, t++
fullReturn ==
    /\ pc = "full"
    /\ sim.returned
    /\ f' = outcome(sim)
    /\ results' = [results EXCEPT !.fullAttempts = push(@, sim.attempts),
                                  !.fullGolds = push(@, sim.gold),
                                  !.fullAttemptsPerStar = pushEach(@, sim.starAttempts)]
    /\ t' = t + 1
    /\ pc' = "loop"
    /\ UNCHANGED <<stats, prev, input, params, rng, sim, s, draws>>

\* line 371 with t >= trials, then lines 383-434
runSimulationEnd ==
    /\ pc = "loop"
    /\ ~(t < input.trials)
    /\ results' =
           [results EXCEPT
               !.set = TRUE,
               !.starsSummary = summary(results.starsAttempts, results.starsGolds),
               !.fullSummary = summary(results.fullAttempts, results.fullGolds),
               !.starsHistogram = makeHistogram(results.starsAttempts, 5),
               !.fullHistogram = makeHistogram(results.fullAttempts, 5),
               !.wcStars = worstCaseStarsOnly(params),
               !.wcFull = worstCaseFull(params),
               !.starsPerStarRows = summarizePerStar(results.starsAttemptsPerStar),
               !.fullPerStarRows = summarizePerStar(results.fullAttemptsPerStar)]
    /\ pc' = "done"
    /\ UNCHANGED <<stats, prev, input, params, rng, t, sim, s, f, draws>>

Next ==
    \/ runSimulationThrows
    \/ runSimulationBegin
    \/ runSimulationAgain
    \/ trialBegin
    \/ starsOnlyStep
    \/ starsOnlyReturn
    \/ fullStarStep
    \/ fullFinalStep
    \/ fullReturn
    \/ runSimulationEnd

Spec == Init /\ [][Next]_vars

---------------------------------------------------------------------------
(* One call of simulateStarsOnly or simulateFullRun with any rand: each draw  *)
(* returns any of the values below, whatever was drawn before.  draws counts  *)
(* the calls of createLCG's rand and stays 0.  As in the diagnostics, the     *)
(* worst case of the same params is computed beside the call: results holds   *)
(* worstCaseStarsOnly(params) and worstCaseFull(params) from the start.       *)

\* values rand() can return: 0 and 1 (states 0 and 0xffffffff)
DrawStates == {ToUint32(0), Divisor}

CallProbSet == {<<0, 1>>, <<1, 2>>}

CallInputs ==
    UNION {
        [starsRequired : {n},
         goldPerAttempt : {100},
         starProbs : [0 .. n - 1 -> CallProbSet],
         finalProb : CallProbSet,
         starPityThreshold : 0 .. MaxCallPity,
         finalPityThreshold : 0 .. MaxCallPity,
         starPityResetsOnAnyFail : BOOLEAN,
         trials : {1},
         seed : {0}] : n \in 1 .. MaxStars }

InitCall ==
    /\ input \in CallInputs
    /\ params = makeParams(input)
    /\ pc = "call"
    /\ rng = ToUint32(0)
    /\ t = 0
    /\ sim \in {starsOnlyBegin(params), fullRunBegin(params)}
    /\ s = noOutcome
    /\ f = noOutcome
    /\ results = [noResults EXCEPT !.wcStars = worstCaseStarsOnly(params),
                                   !.wcFull = worstCaseFull(params)]
    /\ draws = 0
    /\ prev = noPrev
    /\ stats = noStats

callStarsOnlyStep ==
    /\ pc = "call"
    /\ sim.fn = "starsOnly"
    /\ ~sim.returned
    /\ mayStep(sim)
    /\ \E state \in DrawStates :
          sim' = starsOnlyBody(params, sim,
                               /\ ~starGuaranteed(params, sim, sim.currentStars)
                               /\ starLucky(params, sim.currentStars, state))
    /\ UNCHANGED <<stats, prev, input, params, pc, rng, t, s, f, results, draws>>

callFullStarStep ==
    /\ pc = "call"
    /\ sim.fn = "full"
    /\ ~sim.returned
    /\ sim.i < params.numStars
    /\ mayStep(sim)
    /\ \E state \in DrawStates :
          sim' = fullStarBody(params, sim,
                              /\ ~starGuaranteed(params, sim, sim.i)
                              /\ starLucky(params, sim.i, state))
    /\ UNCHANGED <<stats, prev, input, params, pc, rng, t, s, f, results, draws>>

callFullFinalStep ==
    /\ pc = "call"
    /\ sim.fn = "full"
    /\ ~sim.returned
    /\ ~(sim.i < params.numStars)
    /\ mayStep(sim)
    /\ \E state \in DrawStates :
          sim' = fullFinalBody(params, sim,
                               /\ ~finalGuaranteed(params, sim)
                               /\ finalLucky(params, state))
    /\ UNCHANGED <<stats, prev, input, params, pc, rng, t, s, f, results, draws>>

NextCall ==
    \/ callStarsOnlyStep
    \/ callFullStarStep
    \/ callFullFinalStep

SpecCall == InitCall /\ [][NextCall]_vars

---------------------------------------------------------------------------
(* worstCaseStarsOnly and worstCaseFull followed pass by pass: sim holds    *)
(* the locals of the running calculator, and its result is stored in        *)
(* results when it returns.                                                 *)

WorstInputs ==
    UNION {
        [starsRequired : {n},
         goldPerAttempt : GoldSet,
         starProbs : {[k \in 0 .. n - 1 |-> <<1, 2>>]},
         finalProb : {<<1, 2>>},
         starPityThreshold : 0 .. MaxPity,
         finalPityThreshold : 0 .. MaxPity,
         starPityResetsOnAnyFail : BOOLEAN,
         trials : {1},
         seed : {0}] : n \in 1 .. MaxStars }

\* the locals of a calculator on entry
worstCall(par, fn) ==
    [fn |-> fn, attempts |-> 0,
     starPityFails |-> zeros(par.numStars), finalPityFails |-> 0,
     currentStars |-> 0, returned |-> FALSE]

InitWorst ==
    /\ input \in WorstInputs
    /\ params = makeParams(input)
    /\ pc = "worst"
    /\ rng = ToUint32(0)
    /\ t = 0
    /\ sim \in {worstCall(params, "worstCaseStarsOnly"), worstCall(params, "worstCaseFull")}
    /\ s = noOutcome
    /\ f = noOutcome
    /\ results = noResults
    /\ draws = 0
    /\ prev = noPrev
    /\ stats = noStats

\* lines 154 and 179: if (starPityResetsOnAnyFail) return { Infinity, Infinity }
worstReturnInfinity ==
    /\ pc = "worst"
    /\ ~sim.returned
    /\ params.starPityResetsOnAnyFail
    /\ sim' = [sim EXCEPT !.returned = TRUE]
    /\ results' = IF sim.fn = "worstCaseStarsOnly"
                  THEN [results EXCEPT !.wcStars = [attempts |-> Infinity, gold |-> Infinity]]
                  ELSE [results EXCEPT !.wcFull = [attempts |-> Infinity, gold |-> Infinity]]
    /\ UNCHANGED <<stats, prev, input, params, pc, rng, t, s, f, draws>>

\* one pass of the while loop of either calculator
worstStarStep ==
    /\ pc = "worst"
    /\ ~sim.returned
    /\ ~params.starPityResetsOnAnyFail
    /\ sim.currentStars < params.numStars
    /\ sim' = worstStarBody(params, sim)
    /\ UNCHANGED <<stats, prev, input, params, pc, rng, t, s, f, results, draws>>

\* line 174: the loop of worstCaseStarsOnly has ended
worstStarsOnlyReturn ==
    /\ pc = "worst"
    /\ ~sim.returned
    /\ ~params.starPityResetsOnAnyFail
    /\ sim.fn = "worstCaseStarsOnly"
    /\ ~(sim.currentStars < params.numStars)
    /\ sim' = [sim EXCEPT !.returned = TRUE]
    /\ results' = [results EXCEPT !.wcStars =
                      [attempts |-> Fin(sim.attempts),
                       gold |-> Fin(sim.attempts * params.goldPerAttempt)]]
    /\ UNCHANGED <<stats, prev, input, params, pc, rng, t, s, f, draws>>

\* lines 201-208: the final attempt of worstCaseFull and, when it fails, the
\* re-entry of the outer loop (let currentStars = 0)
worstFinalStep ==
    /\ pc = "worst"
    /\ ~sim.returned
    /\ ~params.starPityResetsOnAnyFail
    /\ sim.fn = "worstCaseFull"
    /\ ~(sim.currentStars < params.numStars)
    /\ IF sim.finalPityFails >= params.finalPityThreshold
       THEN /\ sim' = [sim EXCEPT !.attempts = @ + 1, !.returned = TRUE]
            /\ results' = [results EXCEPT !.wcFull =
                              [attempts |-> Fin(sim.attempts + 1),
                               gold |-> Fin((sim.attempts + 1) * params.goldPerAttempt)]]
       ELSE /\ sim' = [sim EXCEPT !.attempts = @ + 1,
                                  !.finalPityFails = @ + 1,
                                  !.currentStars = 0]
            /\ UNCHANGED results
    /\ UNCHANGED <<stats, prev, input, params, pc, rng, t, s, f, draws>>

NextWorst ==
    \/ worstReturnInfinity
    \/ worstStarStep
    \/ worstStarsOnlyReturn
    \/ worstFinalStep

SpecWorst == InitWorst /\ [][NextWorst]_vars

---------------------------------------------------------------------------
(* One call of any of the four functions: a simulator with any rand, or a   *)
(* worst-case calculator.                                                   *)

InitRuns == InitCall \/ InitWorst

NextRuns == NextCall \/ NextWorst

SpecRuns == InitRuns /\ [][NextRuns]_vars

---------------------------------------------------------------------------
(* Direct calls of the sort, percentile and makeHistogram on any array of   *)
(* at most MaxLen samples: the array is sorted, then percentile is called   *)
(* on the sorted copy and makeHistogram on the array as it is, as           *)
(* runSimulation does with its attempts.                                    *)

SampleValues == {0, 1, 4, 5, 12}
PSet == {<<0, 1>>, P50, P90, P99, <<1, 1>>}
BinSizes == {1, 5}

SampleArrays == UNION {[0 .. n - 1 -> SampleValues] : n \in 0 .. MaxLen}

InitStats ==
    /\ input = baseInput
    /\ params = makeParams(input)
    /\ pc = "stats"
    /\ rng = ToUint32(0)
    /\ t = 0
    /\ sim = noRun
    /\ s = noOutcome
    /\ f = noOutcome
    /\ results = noResults
    /\ draws = 0
    /\ prev = noPrev
    /\ stats \in {[noStats EXCEPT !.arr = arr] : arr \in SampleArrays}

\* const sA = [...starsAttempts].sort((a, b) => a - b)
callSort ==
    /\ pc = "stats"
    /\ ~stats.sorted
    /\ stats' = [stats EXCEPT !.sorted = TRUE, !.sortedArr = sortNum(stats.arr)]
    /\ UNCHANGED <<prev, input, params, pc, rng, t, sim, s, f, results, draws>>

\* percentile(sA, p), kept in stats.pct[p]
callPercentile ==
    /\ pc = "stats"
    /\ stats.sorted
    /\ \E p \in PSet \ DOMAIN stats.pct :
          stats' = [stats EXCEPT !.pct =
                       [q \in DOMAIN stats.pct \cup {p} |->
                           IF q = p THEN percentile(stats.sortedArr, p)
                                    ELSE stats.pct[q]]]
    /\ UNCHANGED <<prev, input, params, pc, rng, t, sim, s, f, results, draws>>

\* makeHistogram(starsAttempts, binSize)
callMakeHistogram ==
    /\ pc = "stats"
    /\ \E binSize \in BinSizes \ {stats.binSize} :
          stats' = [stats EXCEPT !.binSize = binSize,
                                 !.hist = makeHistogram(stats.arr, binSize)]
    /\ UNCHANGED <<prev, input, params, pc, rng, t, sim, s, f, results, draws>>

NextStats ==
    \/ callSort
    \/ callPercentile
    \/ callMakeHistogram

SpecStats == InitStats /\ [][NextStats]_vars

---------------------------------------------------------------------------
(* The same call followed for ever.  No guard of the simulators reads       *)
(* attempts, gold or starAttempts, so these counters are held at MaxCount   *)
(* once they reach it and the loops can be followed without a bound.  rng   *)
(* holds the generator state behind the value the last draw returned.       *)

atMost(n, max) == IF n > max THEN max ELSE n

saturate(par, r) ==
    [r EXCEPT !.attempts = atMost(@, MaxCount),
              !.gold = IF r.attempts > MaxCount
                       THEN MaxCount * par.goldPerAttempt ELSE @,
              !.starAttempts = [k \in DOMAIN @ |-> atMost(@[k], MaxCount)]]

fairStarsOnlyStep(state) ==
    /\ pc = "call"
    /\ sim.fn = "starsOnly"
    /\ ~sim.returned
    /\ sim' = saturate(params,
                       starsOnlyBody(params, sim,
                                     /\ ~starGuaranteed(params, sim, sim.currentStars)
                                     /\ starLucky(params, sim.currentStars, state)))
    /\ rng' = IF starGuaranteed(params, sim, sim.currentStars) THEN rng ELSE state
    /\ UNCHANGED <<stats, prev, input, params, pc, t, s, f, results, draws>>

fairFullStarStep(state) ==
    /\ pc = "call"
    /\ sim.fn = "full"
    /\ ~sim.returned
    /\ sim.i < params.numStars
    /\ sim' = saturate(params,
                       fullStarBody(params, sim,
                                    /\ ~starGuaranteed(params, sim, sim.i)
                                    /\ starLucky(params, sim.i, state)))
    /\ rng' = IF starGuaranteed(params, sim, sim.i) THEN rng ELSE state
    /\ UNCHANGED <<stats, prev, input, params, pc, t, s, f, results, draws>>

fairFullFinalStep(state) ==
    /\ pc = "call"
    /\ sim.fn = "full"
    /\ ~sim.returned
    /\ ~(sim.i < params.numStars)
    /\ sim' = saturate(params,
                       fullFinalBody(params, sim,
                                     /\ ~finalGuaranteed(params, sim)
                                     /\ finalLucky(params, state)))
    /\ rng' = IF finalGuaranteed(params, sim) THEN rng ELSE state
    /\ UNCHANGED <<stats, prev, input, params, pc, t, s, f, results, draws>>

NextFair ==
    \E state \in DrawStates :
        \/ fairStarsOnlyStep(state)
        \/ fairFullStarStep(state)
        \/ fairFullFinalStep(state)

\* an attempt on star k whose draw is below starProbs[k]
luckyStar(k) ==
    \E state \in DrawStates :
        /\ starLucky(params, k, state)
        /\ \/ sim.currentStars = k /\ fairStarsOnlyStep(state)
           \/ sim.i = k /\ fairFullStarStep(state)

\* The call keeps running, and an attempt whose probability is not zero and
\* that is made again and again succeeds at some point.
Fairness ==
    /\ WF_vars(NextFair)
    /\ \A k \in 0 .. MaxStars - 1 : SF_vars(luckyStar(k))

SpecFair == InitCall /\ [][NextFair]_vars /\ Fairness

---------------------------------------------------------------------------
(* What the claims read *)

resetOn == params.starPityResetsOnAnyFail
allStarProbs(p) == \A k \in DOMAIN params.starProbs : params.starProbs[k] = p
allProbsZero == allStarProbs(<<0, 1>>) /\ params.finalProb = <<0, 1>>
allProbsOne == allStarProbs(<<1, 1>>) /\ params.finalProb = <<1, 1>>
allOnes(arr) == \A k \in DOMAIN arr : arr[k] = 1

---------------------------------------------------------------------------
\* C1: with resetAllStagePityOnAnyFailure false, whatever the draws return, the
\* attempts of a call of simulateStarsOnly never exceed
\* worstCaseStarsOnly(params).attempts and those of simulateFullRun never
\* exceed worstCaseFull(params).attempts (so each call returns).
C1_WorstCaseIsUpperBound ==
    ~resetOn =>
        /\ sim.fn = "starsOnly" => sim.attempts <= results.wcStars.attempts[2]
        /\ sim.fn = "full" => sim.attempts <= results.wcFull.attempts[2]

\* a full run of two stars that fails every attempt it can, up to the bound,
\* although its probabilities are not zero
C1_Witness ==
    /\ ~resetOn /\ sim.fn = "full" /\ sim.returned
    /\ params.numStars = 2 /\ params.starPityThreshold = 1
    /\ allStarProbs(<<1, 2>>)
    /\ sim.attempts = results.wcFull.attempts[2]

\* C2: with resetAllStagePityOnAnyFailure false and every probability 0, for
\* every seed, each simulateStarsOnly outcome of a batch has attempts =
\* worstCaseStarsOnly(params).attempts and each simulateFullRun outcome has
\* attempts = worstCaseFull(params).attempts.
C2_ZeroProbEqualsWorstCase ==
    (results.set /\ validInput(input) /\ ~resetOn /\ allProbsZero) =>
        /\ Cardinality(DOMAIN results.starsAttempts) = input.trials
        /\ Cardinality(DOMAIN results.fullAttempts) = input.trials
        /\ \A k \in DOMAIN results.starsAttempts :
               Fin(results.starsAttempts[k]) = results.wcStars.attempts
        /\ \A k \in DOMAIN results.fullAttempts :
               Fin(results.fullAttempts[k]) = results.wcFull.attempts

\* the second diagnostic (2 stars, both pities 2, seed 42), run as a batch
C2_Witness ==
    /\ results.set /\ ~resetOn /\ allProbsZero /\ validInput(input)
    /\ input.seed = 42 /\ params.numStars = 2
    /\ params.starPityThreshold = 2 /\ params.finalPityThreshold = 2
    /\ f.attempts = 39 /\ s.attempts = 12
    /\ Cardinality(DOMAIN results.fullAttempts) = MaxTrials

\* C3: with every probability 1, for every seed, simulateStarsOnly returns
\* attempts = numStars and one attempt per star, and the simulateFullRun that
\* follows on the same stream returns attempts = numStars + 1 and one attempt
\* per star.
C3_AllOnesDeterministic ==
    (validInput(input) /\ allProbsOne) =>
        /\ \A k \in DOMAIN results.starsAttempts :
               results.starsAttempts[k] = params.numStars
        /\ \A k \in DOMAIN results.fullAttempts :
               results.fullAttempts[k] = params.numStars + 1
        /\ (pc = "starsOnly" /\ sim.returned) => allOnes(sim.starAttempts)
        /\ (pc = "full" /\ sim.returned) => allOnes(sim.starAttempts)

\* C4: both calculators return Infinity for attempts and for gold when
\* starPityResetsOnAnyFail is true, and finite attempts and gold when it is
\* false.
C4_UnboundedIffReset ==
    results.set =>
        /\ isFinite(results.wcStars.attempts) <=> ~resetOn
        /\ isFinite(results.wcStars.gold) <=> ~resetOn
        /\ isFinite(results.wcFull.attempts) <=> ~resetOn
        /\ isFinite(results.wcFull.gold) <=> ~resetOn
        /\ ~resetOn => /\ results.wcStars.attempts[2] >= params.numStars
                       /\ results.wcFull.attempts[2] > results.wcStars.attempts[2]

\* a finished batch of a valid request with the flag set and pity thresholds 1
C4_Witness ==
    /\ results.set /\ resetOn /\ validInput(input)
    /\ params.starPityThreshold = 1 /\ params.finalPityThreshold = 1
    /\ results.wcStars = [attempts |-> Infinity, gold |-> Infinity]
    /\ results.wcFull = [attempts |-> Infinity, gold |-> Infinity]

\* C5 as stated: with resetAllStagePityOnAnyFailure true and every probability
\* 0, neither simulator returns, for every stagePityThreshold >= 0.
C5_NeverReturnsAnyThreshold ==
    (resetOn /\ allProbsZero) => ~sim.returned

\* C5 (amended): with resetAllStagePityOnAnyFailure true, every probability 0
\* and stagePityThreshold >= 1, no star pity counter ever holds a failure
\* when an attempt is made, no attempt gets past the first star and neither
\* simulator returns.
C5_NeverReturns ==
    (resetOn /\ allProbsZero /\ params.starPityThreshold >= 1) =>
        /\ ~sim.returned
        /\ sim.currentStars = 0 /\ sim.i = 0
        /\ \A k \in DOMAIN sim.starPityFails : sim.starPityFails[k] = 0

\* a full run in that case after MaxCount attempts or more
C5_Witness ==
    /\ resetOn /\ allProbsZero /\ params.starPityThreshold >= 1
    /\ sim.fn = "full" /\ sim.attempts = MaxCount
    /\ sim.starAttempts[0] = MaxCount

someProbNonzero ==
    \/ \E k \in DOMAIN params.starProbs : params.starProbs[k][1] > 0
    \/ params.finalProb[1] > 0
somePityFinite ==
    \/ params.starPityThreshold \in Nat
    \/ params.finalPityThreshold \in Nat

\* C6 as stated: under fair outcomes simulateFullRun returns whenever some
\* probability is not zero or some pity threshold is finite.
C6_ReturnsIfAnyPath ==
    (sim.fn = "full" /\ (someProbNonzero \/ somePityFinite)) ~> sim.returned

\* every star can be passed: by luck, or by pity that is not wiped
everyStarPassable ==
    \A k \in 0 .. params.numStars - 1 :
        \/ k \in DOMAIN params.starProbs /\ params.starProbs[k][1] > 0
        \/ ~resetOn
        \/ params.starPityThreshold <= 0

\* C6 (amended): under fair outcomes simulateFullRun returns whenever every
\* star has a probability that is not zero, or star pity is not wiped on
\* failure, or starPityThreshold is 0.
C6_FullRunReturns ==
    (sim.fn = "full" /\ everyStarPassable) ~> sim.returned

\* a full run that needed luck on both stars (pity is wiped, threshold 1) and
\* returned after a failed final attempt
C6_Witness ==
    /\ sim.fn = "full" /\ sim.returned
    /\ resetOn /\ params.starPityThreshold = 1 /\ params.numStars = 2
    /\ everyStarPassable
    /\ sim.finalPityFails = 1

\* C7: a batch with resetAllStagePityOnAnyFailure true and every probability 0
\* is refused before any trial runs.
C7_FailsFast ==
    (validInput(input) /\ resetOn /\ allProbsZero) =>
        /\ pc \in {"idle", "loop", "threw"}
        /\ t = 0 /\ sim.attempts = 0 /\ draws = 0 /\ ~results.set

\* C8: an invalid request is refused before any simulation step: no trial
\* runs, no draw is consumed, no result bundle is produced.
C8_InvalidRejected ==
    ~validInput(input) =>
        /\ pc \in {"idle", "loop", "threw"}
        /\ t = 0 /\ sim.attempts = 0 /\ draws = 0 /\ ~results.set

C10_DrawsBelowOne == draws > 0 => belowOne(rng)

---------------------------------------------------------------------------
(* The generator as the formula (1664525 * state + 1013904223) mod 2^32,   *)
(* computed by doubling and adding modulo 2^32                             *)

\* (a + b) mod 2^32
add32(a, b) ==
    LET lo == a.lo + b.lo
    IN  [hi |-> (a.hi + b.hi + (lo \div Word)) % Word, lo |-> lo % Word]

\* (m * x) mod 2^32 for a natural number m
RECURSIVE mulMod32(_, _)
mulMod32(m, x) ==
    IF m = 0
    THEN [hi |-> 0, lo |-> 0]
    ELSE LET half == mulMod32(m \div 2, x)
             twice == add32(half, half)
         IN  IF m % 2 = 1 THEN add32(twice, x) ELSE twice

lcgFormula(state) == add32(mulMod32(Multiplier, state), ToUint32(Increment))

isUint32(state) == state.hi \in 0 .. Word - 1 /\ state.lo \in 0 .. Word - 1

\* C11: once runSimulation has called createLCG, the state is an integer in
\* [0, 2^32); before the first draw it is the seed mod 2^32, or 1 when that is
\* 0; every draw replaces it by (1664525 * state + 1013904223) mod 2^32 and
\* nothing else changes it until the next batch calls createLCG, so the k-th
\* state is fixed by the seed and k.
C11_LcgState ==
    /\ [](pc # "idle" =>
             /\ isUint32(rng)
             /\ draws = 0 =>
                    IF input.seed = 0
                    THEN rng = [hi |-> 0, lo |-> 1]
                    ELSE rng.hi * Word + rng.lo = input.seed)
    /\ [][pc \notin {"idle", "done"} =>
             /\ draws' \in {draws, draws + 1}
             /\ draws' = draws + 1 => rng' = lcgFormula(rng)
             /\ draws' = draws => rng' = rng]_vars

\* the third state after seed 42 is 2479403867, and the second after seed 0
\* (state 1) is 1586005467
C11_Witness ==
    \/ input.seed = 42 /\ draws = 3 /\ rng = [hi |-> 37832, lo |-> 45915]
    \/ input.seed = 0 /\ draws = 2 /\ rng = [hi |-> 24200, lo |-> 34267]

\* the first n entries of two arrays are equal
samePrefix(arr, old) ==
    \A k \in DOMAIN arr : k \in DOMAIN old /\ arr[k] = old[k]

\* C12: a second batch with the same seed, configuration and trials repeats
\* the first: trial by trial its simulateStarsOnly and simulateFullRun outcomes
\* (attempts, gold, attempts per star) equal those of the first batch, it hands
\* the same accumulators and worst cases to setResults, and it leaves the
\* generator in the same state after the same number of draws.
C12_Determinism ==
    prev.set =>
        /\ samePrefix(results.starsAttempts, prev.results.starsAttempts)
        /\ samePrefix(results.starsGolds, prev.results.starsGolds)
        /\ samePrefix(results.fullAttempts, prev.results.fullAttempts)
        /\ samePrefix(results.fullGolds, prev.results.fullGolds)
        /\ \A k \in DOMAIN results.starsAttemptsPerStar :
               samePrefix(results.starsAttemptsPerStar[k],
                          prev.results.starsAttemptsPerStar[k])
        /\ \A k \in DOMAIN results.fullAttemptsPerStar :
               samePrefix(results.fullAttemptsPerStar[k],
                          prev.results.fullAttemptsPerStar[k])
        /\ draws <= prev.draws
        /\ pc = "done" => /\ results = prev.results
                          /\ rng = prev.rng
                          /\ draws = prev.draws

\* the second of two batches of two trials with two stars of probability 1/2
\* has finished, and luck decided: its two full runs differ
C12_Witness ==
    /\ prev.set /\ pc = "done" /\ validInput(input)
    /\ params.numStars = 2 /\ allStarProbs(<<1, 2>>)
    /\ draws > 4
    /\ Cardinality(DOMAIN results.fullAttempts) = MaxTrials
    /\ results.fullAttempts[0] # results.fullAttempts[1]

\* C13: a batch creates its generator once, before the first trial; draws are
\* made only inside simulateStarsOnly and simulateFullRun; within trial t the
\* call of simulateStarsOnly runs first and to its end, then the call of
\* simulateFullRun on the same generator, then trial t + 1; the worst-case
\* calculators run once, after the last trial, and draw nothing.
C13_DrawOrder ==
    [][/\ rng' # rng =>
              \/ pc \in {"idle", "done"} /\ pc' \in {"loop", "threw"} /\ draws' = 0
              \/ pc \in {"starsOnly", "full"} /\ pc' = pc /\ t' = t
                   /\ draws' = draws + 1
       /\ draws' # draws => pc \in {"starsOnly", "full", "done"}
       /\ pc = "loop" =>
              \/ pc' = "starsOnly" /\ t' = t /\ t < input.trials
                   /\ sim' = starsOnlyBegin(params)
              \/ pc' = "done" /\ t' = t /\ t >= input.trials
                   /\ rng' = rng /\ draws' = draws
                   /\ ~results.set /\ results'.set
                   /\ results'.wcStars = worstCaseStarsOnly(params)
                   /\ results'.wcFull = worstCaseFull(params)
       /\ pc = "starsOnly" =>
              \/ pc' = "starsOnly" /\ t' = t
              \/ pc' = "full" /\ t' = t /\ sim.returned /\ rng' = rng
                   /\ sim' = fullRunBegin(params)
                   /\ Cardinality(DOMAIN results'.starsAttempts) = t + 1
       /\ pc = "full" =>
              \/ pc' = "full" /\ t' = t
              \/ pc' = "loop" /\ t' = t + 1 /\ sim.returned /\ rng' = rng
                   /\ Cardinality(DOMAIN results'.fullAttempts) = t + 1
       /\ pc # "loop" => results'.set = results.set \/ pc = "done"
      ]_vars

\* a finished batch of two trials whose four calls made six draws or more,
\* no attempt being guaranteed at the start
C13_Witness ==
    /\ pc = "done" /\ validInput(input) /\ t = MaxTrials
    /\ params.starPityThreshold > 0 /\ params.finalPityThreshold > 0
    /\ draws >= 6
    /\ results.set

\* C14: in simulateFullRun a star attempt, passed or failed, with or without
\* the reset of star pity, leaves finalPityFails unchanged; a failed final
\* attempt adds exactly 1 to it; a final attempt that succeeds returns at once
\* with the counter untouched; nothing ever lowers it.
C14_FinalPityFrame ==
    [][sim.fn = "full" =>
          /\ sim.returned => sim' = sim
          /\ (~sim.returned /\ sim.i < params.numStars) =>
                 /\ sim'.finalPityFails = sim.finalPityFails
                 /\ ~sim'.returned
                 /\ sim'.attempts = sim.attempts + 1
          /\ (~sim.returned /\ ~(sim.i < params.numStars)) =>
                 /\ sim'.attempts = sim.attempts + 1
                 /\ \/ sim'.returned /\ sim'.finalPityFails = sim.finalPityFails
                    \/ /\ ~sim'.returned
                       /\ sim'.finalPityFails = sim.finalPityFails + 1
                       /\ ~finalGuaranteed(params, sim)]_vars

\* one star, pity threshold 1, pity kept: the star failed after the final
\* attempt had failed, and the final failure is still counted
C14_Witness ==
    /\ sim.fn = "full" /\ ~resetOn /\ params.numStars = 1
    /\ params.starPityThreshold = 1
    /\ sim.finalPityFails = 1 /\ sim.starPityFails[0] = 1
    /\ sim.starAttempts[0] = 2 /\ sim.attempts = 3

\* C15: the starAttempts of every run, and of every outcome returned, has
\* numStars entries; an outcome of simulateStarsOnly has attempts >= numStars
\* and an outcome of simulateFullRun has attempts >= numStars + 1.
C15_OutcomeSizes ==
    /\ pc \in {"starsOnly", "full"} =>
           /\ length(sim.starAttempts) = params.numStars
           /\ (sim.returned /\ pc = "starsOnly") => sim.attempts >= params.numStars
           /\ (sim.returned /\ pc = "full") => sim.attempts >= params.numStars + 1
    /\ length(results.starsAttempts) > 0 =>
           /\ length(s.starAttempts) = params.numStars
           /\ s.attempts >= params.numStars
    /\ length(results.fullAttempts) > 0 =>
           /\ length(f.starAttempts) = params.numStars
           /\ f.attempts >= params.numStars + 1
    /\ \A k \in DOMAIN results.starsAttempts :
           results.starsAttempts[k] >= params.numStars
    /\ \A k \in DOMAIN results.fullAttempts :
           results.fullAttempts[k] >= params.numStars + 1

\* a finished batch on two stars whose last trial met both lower bounds and
\* whose first trial did not
C15_Witness ==
    /\ pc = "done" /\ validInput(input) /\ params.numStars = 2
    /\ s.attempts = 2 /\ f.attempts = 3
    /\ length(f.starAttempts) = 2
    /\ results.fullAttempts[0] > 3

allZero(arr) == \A k \in DOMAIN arr : arr[k] = 0

\* C16: in worstCaseFull every repetition of the star-building phase starts
\* with every entry of starPityFails at zero: on entry, and after each failed
\* final attempt, which restarts the phase with currentStars = 0 and changes
\* no counter but finalPityFails.
C16_WorstFullPityZero ==
    /\ (sim.fn = "worstCaseFull" /\ ~resetOn =>
            allZero(sim.starPityFails) /\ sim.finalPityFails = 0)
    /\ [][(sim.fn = "worstCaseFull" /\ ~(sim.currentStars < params.numStars)
                /\ ~sim'.returned) =>
             /\ sim'.currentStars = 0
             /\ allZero(sim'.starPityFails)
             /\ sim'.starPityFails = sim.starPityFails
             /\ sim'.finalPityFails = sim.finalPityFails + 1]_vars

\* two stars, both thresholds 2: the third repetition starts after 26
\* attempts, with two failed final attempts carried over
C16_Witness ==
    /\ sim.fn = "worstCaseFull" /\ ~sim.returned
    /\ params.numStars = 2 /\ params.starPityThreshold = 2
    /\ params.finalPityThreshold = 2
    /\ sim.currentStars = 0 /\ sim.finalPityFails = 2 /\ sim.attempts = 26
    /\ allZero(sim.starPityFails)

\* the calculators followed pass by pass return what the operators return
WorstStepsAgree ==
    sim.returned =>
        IF sim.fn = "worstCaseFull"
        THEN results.wcFull = worstCaseFull(params)
        ELSE results.wcStars = worstCaseStarsOnly(params)

\* floor(v / binSize) * binSize
binStart(v, binSize) == (v \div binSize) * binSize

RECURSIVE sumRuns(_, _)
sumRuns(hist, n) == IF n = 0 THEN 0 ELSE sumRuns(hist, n - 1) + hist[n - 1].runs

\* what C17 says of the histogram hist of the samples arr for bins of binSize
isHistogramOf(hist, arr, binSize) ==
    /\ {hist[k].attempts : k \in DOMAIN hist}
         = {binStart(arr[j], binSize) : j \in DOMAIN arr}
    /\ length(hist) = Cardinality({binStart(arr[j], binSize) : j \in DOMAIN arr})
    /\ \A k \in DOMAIN hist :
           /\ hist[k].runs = Cardinality({j \in DOMAIN arr :
                                 binStart(arr[j], binSize) = hist[k].attempts})
           /\ hist[k].runs > 0
           /\ k + 1 \in DOMAIN hist => hist[k].attempts < hist[k + 1].attempts
    /\ sumRuns(hist, length(hist)) = length(arr)

\* C17: makeHistogram(arr, binSize) has exactly one bin for each value
\* floor(v / binSize) * binSize taken by a sample v, holding the number of
\* samples that map to it; the bins are strictly ascending, none is empty and
\* the counts add up to the number of samples.
C17_Histogram ==
    stats.binSize # 0 => isHistogramOf(stats.hist, stats.arr, stats.binSize)

\* the samples 12, 4, 1 in bins of 5: bin 0 holds two of them, bin 10 one
C17_Witness ==
    /\ stats.binSize = 5
    /\ stats.arr = [k \in 0 .. 2 |-> IF k = 0 THEN 12 ELSE IF k = 1 THEN 4 ELSE 1]
    /\ stats.hist = [k \in 0 .. 1 |-> IF k = 0 THEN [attempts |-> 0, runs |-> 2]
                                               ELSE [attempts |-> 10, runs |-> 1]]

\* the histograms of a finished batch are those of its attempts, and their
\* counts add up to the number of trials
HistogramsOfBatch ==
    results.set =>
        /\ isHistogramOf(results.starsHistogram, results.starsAttempts, 5)
        /\ isHistogramOf(results.fullHistogram, results.fullAttempts, 5)
        /\ input.trials >= 0 =>
               /\ sumRuns(results.starsHistogram, length(results.starsHistogram))
                    = input.trials
               /\ sumRuns(results.fullHistogram, length(results.fullHistogram))
                    = input.trials

nonDecreasing(arr) == \A k \in DOMAIN arr : k + 1 \in DOMAIN arr => arr[k] <= arr[k + 1]

\* x lies between the smallest and the largest entry of arr
withinSamples(x, arr) ==
    /\ \E j \in DOMAIN arr : ratLeq(<<arr[j], 1>>, x)
    /\ \E j \in DOMAIN arr : ratLeq(x, <<arr[j], 1>>)

\* C18: on a sorted (non-decreasing) array percentile is monotonic in p: for
\* p <= q the value for p is at most the value for q; and every value lies
\* between the smallest and the largest sample.
C18_PercentileMonotonic ==
    stats.sorted =>
        /\ nonDecreasing(stats.sortedArr)
        /\ \A p \in DOMAIN stats.pct :
               /\ stats.pct[p][2] > 0
               /\ length(stats.arr) > 0 => withinSamples(stats.pct[p], stats.arr)
               /\ \A q \in DOMAIN stats.pct :
                      ratLeq(p, q) => ratLeq(stats.pct[p], stats.pct[q])

\* three samples given out of order, with 0.5, 0.9 and 0.99 all called and
\* giving three different values (4, 10.4 and 11.84)
C18_Witness ==
    /\ stats.arr = [k \in 0 .. 2 |-> IF k = 0 THEN 12 ELSE IF k = 1 THEN 0 ELSE 4]
    /\ {P50, P90, P99} \subseteq DOMAIN stats.pct
    /\ ratEq(stats.pct[P50], <<4, 1>>)
    /\ ratEq(stats.pct[P90], <<104, 10>>)
    /\ ratEq(stats.pct[P99], <<1184, 100>>)

\* in the summaries of a finished batch p50 <= p90 <= p99, for attempts and
\* for gold
ordered(sm) ==
    /\ ratLeq(sm.medianAttempts, sm.p90Attempts)
    /\ ratLeq(sm.p90Attempts, sm.p99Attempts)
    /\ ratLeq(sm.medianGold, sm.p90Gold)
    /\ ratLeq(sm.p90Gold, sm.p99Gold)

PercentilesOfBatch ==
    results.set => ordered(results.starsSummary) /\ ordered(results.fullSummary)

\* C19: percentile returns 0 for an empty array; for an array of one sample
\* it returns that sample for every p in [0, 1]; for p = 1 it returns the last
\* (largest) sample, a number, the entry after the last not being used.
C19_PercentileEdges ==
    stats.sorted =>
        \A p \in DOMAIN stats.pct :
            /\ stats.pct[p][2] > 0
            /\ length(stats.arr) = 0 => ratEq(stats.pct[p], <<0, 1>>)
            /\ length(stats.arr) = 1 => ratEq(stats.pct[p], <<stats.arr[0], 1>>)
            /\ (p = <<1, 1>> /\ length(stats.arr) > 0) =>
                   /\ ratEq(stats.pct[p],
                            <<stats.sortedArr[length(stats.arr) - 1], 1>>)
                   /\ \A j \in DOMAIN stats.arr : ratLeq(<<stats.arr[j], 1>>, stats.pct[p])

\* percentile(sorted, 1) of the samples 5, 12, 1 is 12
C19_Witness ==
    /\ stats.arr = [k \in 0 .. 2 |-> IF k = 0 THEN 5 ELSE IF k = 1 THEN 12 ELSE 1]
    /\ <<1, 1>> \in DOMAIN stats.pct
    /\ stats.pct[<<1, 1>>] = <<12, 1>>

\* the star an attempt of the running simulator is made against
stageIndex(r) == IF r.fn = "starsOnly" THEN r.currentStars ELSE r.i

\* C20: with starPityResetsOnAnyFail false, one star attempt of either
\* simulator against star i adds 1 to attempts and to starAttempts[i] and
\* touches no other entry of starAttempts or starPityFails; on success
\* starPityFails[i] becomes 0 and the next attempt is against i + 1, on
\* failure starPityFails[i] grows by exactly 1 and the next attempt is against
\* star 0.
C20_StageAttemptFrame ==
    [][(~resetOn /\ ~sim.returned /\ stageIndex(sim) < params.numStars) =>
          LET i == stageIndex(sim) IN
          /\ sim'.attempts = sim.attempts + 1
          /\ sim'.starAttempts = [sim.starAttempts EXCEPT ![i] = @ + 1]
          /\ sim'.finalPityFails = sim.finalPityFails
          /\ \A k \in DOMAIN sim.starPityFails \ {i} :
                 sim'.starPityFails[k] = sim.starPityFails[k]
          /\ DOMAIN sim'.starPityFails = DOMAIN sim.starPityFails
          /\ \/ /\ sim'.starPityFails[i] = 0
                /\ sim'.currentStars = i + 1
                /\ sim.fn = "full" => sim'.i = i + 1
             \/ /\ sim'.starPityFails[i] = sim.starPityFails[i] + 1
                /\ sim'.currentStars = 0
                /\ sim.fn = "full" => sim'.i = 0
                /\ ~sim'.returned]_vars

\* two stars, pity kept: star 1 failed, then star 0 failed, and the failure
\* counted against star 1 is still there
C20_Witness ==
    /\ ~resetOn /\ params.numStars = 2 /\ params.starPityThreshold = 1
    /\ sim.starPityFails = [k \in 0 .. 1 |-> 1]
    /\ stageIndex(sim) = 0 /\ ~sim.returned

\* C21: in simulateFullRun currentStars equals the loop index i at the start
\* of every pass of the inner for loop, and a pass does what a pass of the
\* while loop of simulateStarsOnly does from the same locals with the same
\* draw: the same star is attempted, a draw is consumed in the same case,
\* and attempts, gold, starAttempts, starPityFails and currentStars end equal;
\* the for loop ends exactly when the while loop would.
C21_BuildPhaseEquivalent ==
    /\ []((pc = "full" /\ ~sim.returned) => sim.currentStars = sim.i)
    /\ [][(pc = "full" /\ ~sim.returned /\ sim.i < params.numStars) =>
             LET w == [sim EXCEPT !.fn = "starsOnly"]
                 drew == draws' # draws
                 w2 == starsOnlyBody(params, w,
                                     drew /\ starLucky(params, w.currentStars, rng'))
             IN  /\ w.currentStars = sim.i
                 /\ drew <=> ~starGuaranteed(params, w, w.currentStars)
                 /\ sim'.attempts = w2.attempts
                 /\ sim'.gold = w2.gold
                 /\ sim'.starAttempts = w2.starAttempts
                 /\ sim'.starPityFails = w2.starPityFails
                 /\ sim'.currentStars = w2.currentStars
                 /\ w2.returned <=> ~(sim'.i < params.numStars)]_vars

\* a full run on two stars that is back at star 1 after a failure on star 1
\* and a failure on star 0
C21_Witness ==
    /\ pc = "full" /\ ~sim.returned /\ validInput(input) /\ params.numStars = 2
    /\ sim.i = 1 /\ sim.currentStars = 1
    /\ sim.starAttempts[1] >= 1 /\ sim.starAttempts[0] >= 3
    /\ draws > 0

\* C22: in simulateFullRun the star attempted next is i + 1 after a success on
\* star i and star 0 after any failure, of a star attempt or of the final
\* attempt; a final attempt (an attempt counted against no star) is made only
\* with i = currentStars = numStars, that is right after successes on the
\* stars 0, 1, ..., numStars - 1 in a row.
C22_FinalAfterAllStars ==
    /\ [](sim.fn = "full" => sim.i \in 0 .. params.numStars)
    /\ [][(sim.fn = "full" /\ ~sim.returned) =>
             /\ sim.i < params.numStars =>
                    /\ sim'.starAttempts = [sim.starAttempts EXCEPT ![sim.i] = @ + 1]
                    /\ ~sim'.returned
                    /\ \/ sim'.i = sim.i + 1 /\ sim'.currentStars = sim.currentStars + 1
                       \/ sim'.i = 0 /\ sim'.currentStars = 0
             /\ sim'.starAttempts = sim.starAttempts =>
                    /\ sim.i = params.numStars
                    /\ sim.currentStars = params.numStars
                    /\ sim'.attempts = sim.attempts + 1
                    /\ \/ sim'.returned
                       \/ sim'.i = 0 /\ sim'.currentStars = 0]_vars

\* two stars: the final attempt failed as attempt 3 and the run is back at
\* star 0
C22_Witness ==
    /\ sim.fn = "full" /\ ~sim.returned /\ params.numStars = 2
    /\ sim.attempts = 3 /\ sim.finalPityFails = 1
    /\ sim.i = 0 /\ sim.currentStars = 0
    /\ sim.starAttempts = [k \in 0 .. 1 |-> 1]

\* C23: with starPityResetsOnAnyFail true every entry of starPityFails is zero
\* in every state of both simulators, that is before and after every attempt;
\* so with starPityThreshold >= 1 no star attempt is guaranteed.
C23_ResetKeepsPityZero ==
    resetOn =>
        /\ allZero(sim.starPityFails)
        /\ params.starPityThreshold >= 1 =>
               \A k \in DOMAIN sim.starPityFails : ~starGuaranteed(params, sim, k)

\* a full run on two stars with the flag set, after a failed final attempt and
\* failures on both stars
C23_Witness ==
    /\ resetOn /\ sim.fn = "full" /\ params.numStars = 2
    /\ params.starPityThreshold = 1
    /\ sim.finalPityFails = 1
    /\ sim.starAttempts[1] >= 2 /\ sim.starAttempts[0] >= 4
    /\ allZero(sim.starPityFails)

\* C24: in every state of simulateStarsOnly, simulateFullRun,
\* worstCaseStarsOnly and worstCaseFull, starPityFails[i] <= starPityThreshold
\* for every star i and finalPityFails <= finalPityThreshold.
C24_PityWithinThreshold ==
    /\ \A k \in DOMAIN sim.starPityFails :
           sim.starPityFails[k] <= params.starPityThreshold
    /\ sim.finalPityFails <= params.finalPityThreshold

\* a full run with both counters at their threshold of 1
C24_Witness ==
    /\ sim.fn = "full" /\ ~sim.returned /\ params.numStars = 2
    /\ params.starPityThreshold = 1 /\ params.finalPityThreshold = 1
    /\ sim.starPityFails[1] = 1 /\ sim.finalPityFails = 1

\* C25: every entry of starPityFails is zero whenever simulateFullRun is about
\* to make its final attempt and whenever simulateStarsOnly has returned; a
\* failed final attempt, handleFailReset included, leaves starPityFails as it
\* was, so the stars are rebuilt from all-zero pity with or without the flag.
C25_PityZeroAtFinal ==
    /\ []((sim.fn = "full" /\ ~(sim.i < params.numStars)) =>
              allZero(sim.starPityFails))
    /\ []((sim.fn = "starsOnly" /\ sim.returned) => allZero(sim.starPityFails))
    /\ [][(sim.fn = "full" /\ ~sim.returned /\ ~(sim.i < params.numStars)) =>
             /\ sim'.starPityFails = sim.starPityFails
             /\ handleFailReset(params, sim.starPityFails) = sim.starPityFails
             /\ ~sim'.returned => sim'.i = 0 /\ allZero(sim'.starPityFails)]_vars

\* pity kept, threshold 1, two stars: star 1 was passed by pity after a
\* failure, the final attempt failed once, and all pity is zero at the second
\* final attempt
C25_Witness ==
    /\ sim.fn = "full" /\ ~sim.returned /\ ~resetOn /\ params.numStars = 2
    /\ params.starPityThreshold = 1
    /\ sim.i = 2 /\ sim.finalPityFails = 1
    /\ sim.starAttempts[1] >= 3
    /\ allZero(sim.starPityFails)

\* the sum of the entries of arr
sum(arr) == sumFirst(arr, length(arr))

\* C26: in every state of simulateStarsOnly attempts is the sum of
\* starAttempts; in every state of simulateFullRun attempts is the sum of
\* starAttempts plus the number of final attempts made, which is
\* finalPityFails before the return and finalPityFails + 1 after it.
C26_AttemptsConserved ==
    /\ sim.fn = "starsOnly" => sim.attempts = sum(sim.starAttempts)
    /\ sim.fn = "full" =>
           sim.attempts = sum(sim.starAttempts) + sim.finalPityFails
                            + (IF sim.returned THEN 1 ELSE 0)

\* a returned full run on two stars with one failed final attempt and a failed
\* star attempt: 5 star attempts or more and 2 final attempts
C26_Witness ==
    /\ sim.fn = "full" /\ sim.returned /\ params.numStars = 2
    /\ sim.finalPityFails = 1
    /\ sum(sim.starAttempts) >= 5
    /\ sim.attempts = sum(sim.starAttempts) + 2

\* C27: starAttempts is non-increasing in the star index in every state of
\* both simulators, and in a returned outcome every entry is at least 1.
C27_AttemptsPerStarOrdered ==
    /\ \A k \in DOMAIN sim.starAttempts :
           k + 1 \in DOMAIN sim.starAttempts =>
               sim.starAttempts[k] >= sim.starAttempts[k + 1]
    /\ sim.returned => \A k \in DOMAIN sim.starAttempts : sim.starAttempts[k] >= 1

\* a returned stars-only run on two stars with more attempts on star 0 than
\* on star 1, and more than one on star 1
C27_Witness ==
    /\ sim.fn = "starsOnly" /\ sim.returned /\ params.numStars = 2
    /\ sim.starAttempts[0] > sim.starAttempts[1]
    /\ sim.starAttempts[1] > 1

\* the closed form W(0) = 0, W(n) = (T + 1) * (W(n - 1) + 1)
RECURSIVE W(_, _)
W(n, T) == IF n = 0 THEN 0 ELSE (T + 1) * (W(n - 1, T) + 1)

\* C28: without the reset rule, worstCaseStarsOnly returns W(numStars)
\* attempts and worstCaseFull returns (F + 1) * (W(numStars) + 1) attempts,
\* where T and F are the star and final pity thresholds.
C28_WorstCaseClosedForm ==
    (pc = "worst" /\ sim.returned /\ ~params.starPityResetsOnAnyFail) =>
        LET Wn == W(params.numStars, params.starPityThreshold)
        IN  /\ sim.fn = "worstCaseStarsOnly" =>
                   results.wcStars.attempts = Fin(Wn)
            /\ sim.fn = "worstCaseFull" =>
                   results.wcFull.attempts =
                       Fin((params.finalPityThreshold + 1) * (Wn + 1))

\* two stars with both thresholds 2: worstCaseFull has returned 39 = 3 * (12 + 1)
C28_Witness ==
    /\ pc = "worst" /\ sim.returned /\ ~params.starPityResetsOnAnyFail
    /\ sim.fn = "worstCaseFull"
    /\ params.numStars = 2
    /\ params.starPityThreshold = 2 /\ params.finalPityThreshold = 2
    /\ results.wcFull.attempts = Fin(39)

\* the attempt about to be made in the running simulator is guaranteed by pity
pityGuaranteed ==
    IF pc = "starsOnly"
    THEN sim.starPityFails[sim.currentStars] >= params.starPityThreshold
    ELSE IF sim.i < params.numStars
         THEN sim.starPityFails[sim.i] >= params.starPityThreshold
         ELSE sim.finalPityFails >= params.finalPityThreshold

\* the attempt about to be made is the final attempt of simulateFullRun
finalAttemptNext == pc = "full" /\ ~(sim.i < params.numStars)

\* C29: an attempt guaranteed by pity takes no draw and leaves the generator
\* as it was, every other attempt takes exactly one draw; with a star pity
\* threshold of 0 no star attempt draws, with a final pity threshold of 0 no
\* final attempt draws, and with both at 0 a batch draws nothing.
C29_GuaranteedTakesNoDraw ==
    /\ [](params.starPityThreshold = 0 /\ params.finalPityThreshold = 0
              => draws = 0)
    /\ [][(pc \in {"starsOnly", "full"} /\ ~sim.returned
             /\ sim'.attempts = sim.attempts + 1) =>
              /\ IF pityGuaranteed
                 THEN rng' = rng /\ draws' = draws
                 ELSE rng' = lcgNext(rng) /\ draws' = draws + 1
              /\ (~finalAttemptNext /\ params.starPityThreshold = 0)
                     => UNCHANGED <<rng, draws>>
              /\ (finalAttemptNext /\ params.finalPityThreshold = 0)
                     => UNCHANGED <<rng, draws>>]_vars

\* a finished batch with positive thresholds in which some attempts drew and
\* some, guaranteed by pity, did not
C29_Witness ==
    /\ pc = "done" /\ results.set
    /\ params.starPityThreshold >= 1 /\ params.finalPityThreshold >= 1
    /\ draws > 0
    /\ draws < sum(results.starsAttempts) + sum(results.fullAttempts)

============================================================================
